---- MODULE Spec2Model ----
(***************************************************************************)
(* train.py of chainer-food-101: one process is one execution of the       *)
(* script (module imports, main(), train()).  Any number of processes run  *)
(* one after another against the same destination directory, which is the  *)
(* only state that outlives a process.  The processes of one behaviour      *)
(* train the same job: they share --model_name, --seed, --multiplier and    *)
(* --batch-size and differ in --epoch and --resume.                         *)
(*                                                                         *)
(* train() is glue around the chainer trainer.  The calls it makes         *)
(* (split_dataset_random, MultiprocessIterator, Trainer.run, the           *)
(* extensions and their interval triggers, load_npz) are modelled at the   *)
(* call site by what the library does there: extensions run after each     *)
(* update in order of priority (Evaluator, LogReport, PlotReport,          *)
(* snapshot, snapshot_object), each behind its own interval trigger, and   *)
(* a trainer snapshot holds the updater, the extensions and every          *)
(* trigger's state as they are when the snapshot extension runs.           *)
(***************************************************************************)
EXTENDS Integers, Sequences, FiniteSets, TLC

\* Bounds of the model.
MaxEpoch == 2       \* largest --epoch
MaxLen == 3         \* largest dataset length of a training run
MaxSplitLen == 100  \* largest dataset length the split alone is applied to
MaxCalls == 2       \* calls of the split on one dataset

\* Program constants.
DefaultSeed == 12345        \* --seed default
NumClasses == 101           \* num_classes of every network
DepthMultiplierTenths == 10 \* depth_multiplier=1.0, in tenths
\* Variant: an interval of two epochs.
SnapshotIntervalSparse == 1 + 1
SnapshotInterval == 1       \* snapshot_interval = (1, 'epoch')

ModelNames == {"mv2", "vgg16", "resnet50", "unknown"}
Seeds == {DefaultSeed, 1}
Multipliers == {5, DepthMultiplierTenths}  \* --multiplier in tenths: 0.5, 1.0

VARIABLES
  matplotlib,     \* environment: `import matplotlib` succeeds
  dataset_len,    \* environment: number of samples under --dataset
  cmdline,        \* environment: the arguments every process is started with
  started,        \* a process has been started before
  pc,             \* position of the current process
  error,          \* what ended the process, "" while it runs or after success
  args,           \* the parsed arguments
  rng,            \* states of random, numpy.random, xp.random (-1: OS entropy)
  trace,          \* set-up events of the current process, in order
  dataset,        \* len(dataset), -1 before it is loaded
  train_dataset,  \* indices of the train subset
  valid_dataset,  \* indices of the validation subset
  iters,          \* the iterators created
  model,          \* the network built
  optimizer,      \* [kind, t]: the optimizer and the updates it has applied
  updater,        \* [iteration, epoch, pos]: the counters of the train iterator
  log,            \* LogReport's accumulated records
  trig,           \* previous epoch seen by each interval trigger
  extensions,     \* the extensions registered on the trainer
  resumed_from,   \* epoch of the snapshot loaded by this process, 0 if none
  events,         \* per process: how often each loop event happened, by epoch
  dir_exists,     \* disk: the destination directory
  args_json,      \* disk: args.json
  snap_files,     \* disk: snapshot_epoch_<e>.npz, by e
  model_files,    \* disk: model_epoch_<e>.npz, by e
  log_json,       \* disk: log.json
  splits,         \* history: the partitions the split has returned
  calls           \* history: calls of the split on its own

vars == <<matplotlib, dataset_len, cmdline, started, pc, error, args, rng,
          trace, dataset, train_dataset, valid_dataset, iters, model, optimizer,
          updater, log, trig, extensions, resumed_from, events, dir_exists,
          args_json, snap_files, model_files, log_json, splits, calls>>

env == <<matplotlib, dataset_len, cmdline>>
disk == <<dir_exists, args_json, snap_files, model_files, log_json>>

----------------------------------------------------------------------------
\* Helpers: files and counters keyed by name.

Count(b, k) == IF k \in DOMAIN b THEN b[k] ELSE 0

Inc(b, k) == [x \in (DOMAIN b) \cup {k} |-> IF x = k THEN Count(b, k) + 1 ELSE b[x]]

Put(f, k, v) == [x \in (DOMAIN f) \cup {k} |-> IF x = k THEN v ELSE f[x]]

IsPrefix(s, t) == Len(s) <= Len(t) /\ SubSeq(t, 1, Len(s)) = s

Range(s) == {s[i] : i \in DOMAIN s}

----------------------------------------------------------------------------
\* Random number generators.  A generator is its integer state; -1 stands
\* for a state taken from OS entropy, which no later draw makes known.

SeedState(seed) == seed % 65537

NextRand(s) == IF s < 0 THEN s ELSE (75 * s + 74) % 65537

\* numpy's permutation: shuffle(arange(n)), a Fisher-Yates pass from the top.
RECURSIVE Shuffle(_, _, _)
Shuffle(arr, i, s) ==
  IF i < 2 \/ Len(arr) < i THEN arr
  ELSE LET s2 == NextRand(s)
           j == (s2 % i) + 1
           swapped == [arr EXCEPT ![i] = arr[j], ![j] = arr[i]]
       IN Shuffle(swapped, i - 1, s2)

RECURSIVE Draws(_, _)
Draws(s, k) == IF k <= 0 \/ s < 0 THEN s ELSE Draws(NextRand(s), k - 1)

Permutation(s, n) == Shuffle([i \in 1..n |-> i - 1], n, s)

\* int(0.9 * n): the double nearest 0.9 is a little above 0.9 and the product
\* rounds to the integer when 9n/10 is one, so truncation gives floor(9n/10).
TrainSize(n) == (9 * n) \div 10

\* Variant: a split that ignores seed and draws from the global state g.
SplitDatasetRandomUnseeded(n, first_size, seed, g) ==
  LET order == Permutation(g, n)
  IN [train |-> SubSeq(order, 1, first_size),
      valid |-> SubSeq(order, first_size + 1, n),
      np |-> Draws(g, n - 1)]

\* split_dataset_random(dataset, first_size, seed): the order comes from a
\* RandomState of its own, seeded with seed; the global state g is not read.
SplitDatasetRandom(n, first_size, seed, g) ==
  LET order == Permutation(SeedState(seed), n)
  IN [train |-> SubSeq(order, 1, first_size),
      valid |-> SubSeq(order, first_size + 1, n),
      np |-> g]

----------------------------------------------------------------------------
\* A process before main() has run.

NoArgs == [model_name |-> "", seed |-> 0, multiplier |-> 0, batch_size |-> 0,
           resume |-> 0, epoch |-> 0]
NoModel == [arch |-> "", num_classes |-> 0, depth_multiplier |-> 0,
            frozen |-> FALSE]
NoTrig == [stop |-> 0, evaluator |-> 0, log_report |-> 0, plot_loss |-> 0,
           plot_accuracy |-> 0, snapshot |-> 0, snapshot_object |-> 0]

FreshMemory ==
  /\ args = NoArgs
  /\ rng = [random |-> -1, np |-> -1, xp |-> -1]
  /\ trace = << >>
  /\ dataset = -1
  /\ train_dataset = << >>
  /\ valid_dataset = << >>
  /\ iters = {}
  /\ model = NoModel
  /\ optimizer = [kind |-> "", t |-> 0]
  /\ updater = [iteration |-> 0, epoch |-> 0, pos |-> 0]
  /\ log = << >>
  /\ trig = NoTrig
  /\ extensions = {}
  /\ resumed_from = 0
  /\ events = << >>

ResetMemory ==
  /\ args' = NoArgs
  /\ rng' = [random |-> -1, np |-> -1, xp |-> -1]
  /\ trace' = << >>
  /\ dataset' = -1
  /\ train_dataset' = << >>
  /\ valid_dataset' = << >>
  /\ iters' = {}
  /\ model' = NoModel
  /\ optimizer' = [kind |-> "", t |-> 0]
  /\ updater' = [iteration |-> 0, epoch |-> 0, pos |-> 0]
  /\ log' = << >>
  /\ trig' = NoTrig
  /\ extensions' = {}
  /\ resumed_from' = 0
  /\ events' = << >>

Init ==
  /\ matplotlib \in BOOLEAN
  /\ dataset_len \in 2..MaxLen
  /\ cmdline \in {[model_name |-> m, seed |-> sd, multiplier |-> w,
                   batch_size |-> b] :
                     m \in ModelNames, sd \in Seeds, w \in Multipliers,
                     b \in 1..TrainSize(dataset_len)}
  /\ started = FALSE
  /\ pc = "idle"
  /\ error = ""
  /\ FreshMemory
  /\ dir_exists = FALSE
  /\ args_json = FALSE
  /\ snap_files = << >>
  /\ model_files = << >>
  /\ log_json = << >>
  /\ splits = {}
  /\ calls = 0

----------------------------------------------------------------------------
\* The script up to trainer.run().

\* The module's imports: matplotlib is imported unconditionally.
StartProcess ==
  /\ pc \in {"idle", "completed", "failed"}
  /\ started' = TRUE
  /\ ResetMemory
  /\ IF matplotlib
       THEN pc' = "main" /\ error' = ""
       ELSE pc' = "failed" /\ error' = "ImportError"
  /\ UNCHANGED <<env, disk, splits, calls>>

\* --resume: empty, a path that holds no snapshot, or a snapshot of the
\* destination taken no later than the epoch to train to.
ResumeChoices(e) == {0, -1} \cup {k \in DOMAIN snap_files : k <= e}

ParseArgument ==
  /\ pc = "main"
  /\ \E e \in 1..MaxEpoch :
       \E r \in ResumeChoices(e) :
         args' = [model_name |-> cmdline.model_name, seed |-> cmdline.seed,
                  multiplier |-> cmdline.multiplier,
                  batch_size |-> cmdline.batch_size, resume |-> r, epoch |-> e]
  /\ pc' = "parsed"
  /\ UNCHANGED <<env, disk, started, error, rng, trace, dataset, train_dataset,
                 valid_dataset, iters, model, optimizer, updater, log, trig,
                 extensions, resumed_from, events, splits, calls>>

\* Variant: set_random_seed without the xp.random.seed(seed) line.
SetRandomSeedWithoutXp ==
  /\ pc = "parsed"
  /\ rng' = [rng EXCEPT !.random = SeedState(args.seed),
                        !.np = SeedState(args.seed)]
  /\ trace' = trace \o << <<"seed_random", args.seed>>, <<"seed_np", args.seed>> >>
  /\ pc' = "seeded"
  /\ UNCHANGED <<env, disk, started, error, args, dataset, train_dataset,
                 valid_dataset, iters, model, optimizer, updater, log, trig,
                 extensions, resumed_from, events, splits, calls>>

\* set_random_seed(args.seed): random, np.random and xp.random, in this order.
SetRandomSeed ==
  /\ pc = "parsed"
  /\ rng' = [random |-> SeedState(args.seed), np |-> SeedState(args.seed),
             xp |-> SeedState(args.seed)]
  /\ trace' = trace \o << <<"seed_random", args.seed>>, <<"seed_np", args.seed>>,
                         <<"seed_xp", args.seed>> >>
  /\ pc' = "seeded"
  /\ UNCHANGED <<env, disk, started, error, args, dataset, train_dataset,
                 valid_dataset, iters, model, optimizer, updater, log, trig,
                 extensions, resumed_from, events, splits, calls>>

SaveArgs ==
  /\ pc = "seeded"
  /\ dir_exists' = TRUE
  /\ args_json' = TRUE
  /\ trace' = trace \o (IF dir_exists THEN << >> ELSE << <<"mkdir", 0>> >>)
                    \o << <<"args_json", 0>> >>
  /\ pc' = "args_saved"
  /\ UNCHANGED <<env, snap_files, model_files, log_json, started, error, args,
                 rng, dataset, train_dataset, valid_dataset, iters, model,
                 optimizer, updater, log, trig, extensions, resumed_from,
                 events, splits, calls>>

LoadDataset ==
  /\ pc = "args_saved"
  /\ dataset' = dataset_len
  /\ trace' = Append(trace, <<"dataset", dataset_len>>)
  /\ pc' = "dataset"
  /\ UNCHANGED <<env, disk, started, error, args, rng, train_dataset,
                 valid_dataset, iters, model, optimizer, updater, log, trig,
                 extensions, resumed_from, events, splits, calls>>

SplitDataset ==
  /\ pc = "dataset"
  /\ LET r == SplitDatasetRandom(dataset, TrainSize(dataset), args.seed, rng.np)
     IN /\ train_dataset' = r.train
        /\ valid_dataset' = r.valid
        /\ rng' = [rng EXCEPT !.np = r.np]
  /\ trace' = Append(trace, <<"split", args.seed>>)
  /\ pc' = "split"
  /\ UNCHANGED <<env, disk, started, error, args, dataset, iters, model,
                 optimizer, updater, log, trig, extensions, resumed_from,
                 events, splits, calls>>

\* MultiprocessIterator(train_dataset, batch_size): repeating and shuffled;
\* its first order is drawn from numpy's global generator.
TrainIterator ==
  /\ pc = "split"
  /\ iters' = iters \cup {"train_iter"}
  /\ rng' = [rng EXCEPT !.np = Draws(rng.np, Len(train_dataset) - 1)]
  /\ updater' = [iteration |-> 0, epoch |-> 0, pos |-> 0]
  /\ trace' = Append(trace, <<"train_iter", args.batch_size>>)
  /\ pc' = "train_iter"
  /\ UNCHANGED <<env, disk, started, error, args, dataset, train_dataset,
                 valid_dataset, model, optimizer, log, trig, extensions,
                 resumed_from, events, splits, calls>>

\* MultiprocessIterator(valid_dataset, batch_size, repeat=False, shuffle=False)
ValIterator ==
  /\ pc = "train_iter"
  /\ iters' = iters \cup {"val_iter"}
  /\ trace' = Append(trace, <<"val_iter", args.batch_size>>)
  /\ pc' = "val_iter"
  /\ UNCHANGED <<env, disk, started, error, args, rng, dataset, train_dataset,
                 valid_dataset, model, optimizer, updater, log, trig,
                 extensions, resumed_from, events, splits, calls>>

\* The network for a supported args.model_name.
Network(name, multiplier) ==
  IF name = "mv2"
    THEN [arch |-> "MobilenetV2", num_classes |-> NumClasses,
          depth_multiplier |-> DepthMultiplierTenths, frozen |-> FALSE]
    ELSE IF name = "vgg16"
      THEN [arch |-> "VGG16", num_classes |-> NumClasses,
            depth_multiplier |-> 0, frozen |-> FALSE]
      ELSE [arch |-> "ResNet50", num_classes |-> NumClasses,
            depth_multiplier |-> 0, frozen |-> FALSE]

\* The if/elif chain on args.model_name; any other name raises.
BuildModel ==
  /\ pc = "val_iter"
  /\ IF args.model_name \in {"mv2", "vgg16", "resnet50"}
       THEN /\ model' = Network(args.model_name, args.multiplier)
            /\ trace' = Append(trace, <<"init_params", 0>>)
            /\ pc' = "model"
            /\ error' = error
       ELSE /\ pc' = "failed"
            /\ error' = "illegal model name"
            /\ UNCHANGED <<model, trace>>
  /\ UNCHANGED <<env, disk, started, args, rng, dataset, train_dataset,
                 valid_dataset, iters, optimizer, updater, log, trig,
                 extensions, resumed_from, events, splits, calls>>

\* Classifier, the optimizer chosen by model name, the frozen layers.
BuildOptimizer ==
  /\ pc = "model"
  /\ optimizer' = [kind |-> IF args.model_name = "mv2" THEN "SGD" ELSE "Adam",
                   t |-> 0]
  /\ model' = [model EXCEPT !.frozen = args.model_name \in {"vgg16", "resnet50"}]
  /\ pc' = "optimizer"
  /\ UNCHANGED <<env, disk, started, error, args, rng, trace, dataset,
                 train_dataset, valid_dataset, iters, updater, log, trig,
                 extensions, resumed_from, events, splits, calls>>

\* PlotReport.available(): matplotlib can be imported.
PlotReportAvailable == matplotlib

\* The updater, the trainer and its extensions.
BuildTrainer ==
  /\ pc = "optimizer"
  /\ trig' = NoTrig
  /\ extensions' = {"evaluator", "log_report", "snapshot", "snapshot_object"}
                   \cup (IF PlotReportAvailable
                           THEN {"plot_loss", "plot_accuracy"} ELSE {})
  /\ pc' = "trainer"
  /\ UNCHANGED <<env, disk, started, error, args, rng, trace, dataset,
                 train_dataset, valid_dataset, iters, model, optimizer, updater,
                 log, resumed_from, events, splits, calls>>

----------------------------------------------------------------------------
\* The trainer: chainer.serializers.load_npz and Trainer.run().

\* IntervalTrigger(period, 'epoch'): fires when the epoch count, divided by
\* the period, has changed since the trigger was last asked.
Fire(prev, cur, period) == (prev \div period) # (cur \div period)

\* What extensions.snapshot() serializes: the updater (iterator counters,
\* optimizer, model), the extensions and the triggers as they are now.
SnapshotOf(tr) ==
  [model_name |-> args.model_name, updater |-> updater, t |-> optimizer.t,
   log |-> log, trig |-> tr]

\* if args.resume: load_npz(args.resume, trainer)
Resume ==
  /\ pc = "trainer"
  /\ IF args.resume = 0
       THEN /\ pc' = "loop"
            /\ UNCHANGED <<error, updater, optimizer, log, trig, resumed_from>>
       ELSE IF args.resume \in DOMAIN snap_files
                 /\ snap_files[args.resume].model_name = args.model_name
         THEN LET s == snap_files[args.resume]
              IN /\ updater' = s.updater
                 /\ optimizer' = [optimizer EXCEPT !.t = s.t]
                 /\ log' = s.log
                 /\ trig' = s.trig
                 /\ resumed_from' = s.updater.epoch
                 /\ pc' = "loop"
                 /\ error' = error
         ELSE /\ pc' = "failed"
              /\ error' = "deserialization"
              /\ UNCHANGED <<updater, optimizer, log, trig, resumed_from>>
  /\ UNCHANGED <<env, disk, started, args, rng, trace, dataset, train_dataset,
                 valid_dataset, iters, model, extensions, events, splits, calls>>

\* while not stop_trigger(trainer): the stop trigger is an interval trigger
\* of args.epoch epochs.
LoopTop ==
  /\ pc = "loop"
  /\ trig' = [trig EXCEPT !.stop = updater.epoch]
  /\ pc' = IF Fire(trig.stop, updater.epoch, args.epoch)
             THEN "completed" ELSE "update"
  /\ UNCHANGED <<env, disk, started, error, args, rng, trace, dataset,
                 train_dataset, valid_dataset, iters, model, optimizer, updater,
                 log, extensions, resumed_from, events, splits, calls>>

\* The counters after one more batch of batch_size from a repeating iterator
\* over n samples: the epoch ends with the batch that reaches the end of the
\* subset; the rest of that batch opens the next pass.
NextUpdater(u, batch_size, n) ==
  LET p == u.pos + batch_size
  IN [iteration |-> u.iteration + 1,
      epoch |-> IF p >= n THEN u.epoch + 1 ELSE u.epoch,
      pos |-> IF p >= n THEN p - n ELSE p]

\* updater.update(): the next batch, forward, backward, one optimizer step.
\* A new pass over the subset reshuffles it from numpy's global generator.
Update ==
  /\ pc = "update"
  /\ updater' = NextUpdater(updater, args.batch_size, Len(train_dataset))
  /\ rng' = IF updater'.epoch # updater.epoch
              THEN [rng EXCEPT !.np = Draws(rng.np, Len(train_dataset) - 1)]
              ELSE rng
  /\ optimizer' = [optimizer EXCEPT !.t = optimizer.t + 1]
  /\ pc' = "evaluator"
  /\ UNCHANGED <<env, disk, started, error, args, trace, dataset, train_dataset,
                 valid_dataset, iters, model, log, trig, extensions,
                 resumed_from, events, splits, calls>>

\* Evaluator(val_iter, model), trigger snapshot_interval.
ExtEvaluator ==
  /\ pc = "evaluator"
  /\ trig' = [trig EXCEPT !.evaluator = updater.epoch]
  /\ events' = IF Fire(trig.evaluator, updater.epoch, SnapshotInterval)
                 THEN Inc(events, <<"eval", updater.epoch>>) ELSE events
  /\ pc' = "log_report"
  /\ UNCHANGED <<env, disk, started, error, args, rng, trace, dataset,
                 train_dataset, valid_dataset, iters, model, optimizer, updater,
                 log, extensions, resumed_from, splits, calls>>

\* The record LogReport appends.
LogRecord(u) == [epoch |-> u.epoch, iteration |-> u.iteration]

\* Variant: a LogReport that writes only the newest record.
LogFileLastRecord(l) == << l[Len(l)] >>

\* What LogReport writes to log.json: the whole accumulated log.
LogFile(l) == l

\* LogReport(trigger=snapshot_interval, log_name='log.json'): called after
\* every update; when its trigger fires it appends one record and rewrites
\* the file from the accumulated log.
ExtLogReport ==
  /\ pc = "log_report"
  /\ trig' = [trig EXCEPT !.log_report = updater.epoch]
  /\ IF Fire(trig.log_report, updater.epoch, SnapshotInterval)
       THEN /\ log' = Append(log, LogRecord(updater))
            /\ log_json' = LogFile(log')
            /\ events' = Inc(events, <<"log", updater.epoch>>)
       ELSE UNCHANGED <<log, log_json, events>>
  /\ pc' = IF "plot_loss" \in extensions THEN "plot_loss" ELSE "snapshot"
  /\ UNCHANGED <<env, dir_exists, args_json, snap_files, model_files, started,
                 error, args, rng, trace, dataset, train_dataset, valid_dataset,
                 iters, model, optimizer, updater, extensions, resumed_from,
                 splits, calls>>

\* PlotReport([...loss], 'epoch', file_name='loss.png')
ExtPlotLoss ==
  /\ pc = "plot_loss"
  /\ trig' = [trig EXCEPT !.plot_loss = updater.epoch]
  /\ events' = IF Fire(trig.plot_loss, updater.epoch, SnapshotInterval)
                 THEN Inc(events, <<"plot_loss", updater.epoch>>) ELSE events
  /\ pc' = "plot_accuracy"
  /\ UNCHANGED <<env, disk, started, error, args, rng, trace, dataset,
                 train_dataset, valid_dataset, iters, model, optimizer, updater,
                 log, extensions, resumed_from, splits, calls>>

\* PlotReport([...accuracy], 'epoch', file_name='accuracy.png')
ExtPlotAccuracy ==
  /\ pc = "plot_accuracy"
  /\ trig' = [trig EXCEPT !.plot_accuracy = updater.epoch]
  /\ events' = IF Fire(trig.plot_accuracy, updater.epoch, SnapshotInterval)
                 THEN Inc(events, <<"plot_accuracy", updater.epoch>>) ELSE events
  /\ pc' = "snapshot"
  /\ UNCHANGED <<env, disk, started, error, args, rng, trace, dataset,
                 train_dataset, valid_dataset, iters, model, optimizer, updater,
                 log, extensions, resumed_from, splits, calls>>

\* Variants: a name one epoch behind, and '..._{.updater.iteration}.npz'.
SnapshotNamePrevious == updater.epoch - 1

SnapshotNameByIteration == updater.iteration

\* The name a snapshot is written under: '..._epoch_{.updater.epoch}.npz'.
SnapshotName == updater.epoch

\* extensions.snapshot(filename='snapshot_epoch_{.updater.epoch}.npz')
ExtSnapshot ==
  /\ pc = "snapshot"
  /\ trig' = [trig EXCEPT !.snapshot = updater.epoch]
  /\ IF Fire(trig.snapshot, updater.epoch, SnapshotInterval)
       THEN /\ snap_files' = Put(snap_files, SnapshotName, SnapshotOf(trig'))
            /\ events' = Inc(events, <<"snapshot", SnapshotName>>)
       ELSE UNCHANGED <<snap_files, events>>
  /\ pc' = "snapshot_object"
  /\ UNCHANGED <<env, dir_exists, args_json, model_files, log_json, started,
                 error, args, rng, trace, dataset, train_dataset, valid_dataset,
                 iters, model, optimizer, updater, log, extensions,
                 resumed_from, splits, calls>>

\* extensions.snapshot_object(model, 'model_epoch_{.updater.epoch}.npz')
ExtSnapshotObject ==
  /\ pc = "snapshot_object"
  /\ trig' = [trig EXCEPT !.snapshot_object = updater.epoch]
  /\ IF Fire(trig.snapshot_object, updater.epoch, SnapshotInterval)
       THEN /\ model_files' = Put(model_files, SnapshotName, optimizer.t)
            /\ events' = Inc(events, <<"model", SnapshotName>>)
       ELSE UNCHANGED <<model_files, events>>
  /\ pc' = "loop"
  /\ UNCHANGED <<env, dir_exists, args_json, snap_files, log_json, started,
                 error, args, rng, trace, dataset, train_dataset, valid_dataset,
                 iters, model, optimizer, updater, log, extensions,
                 resumed_from, splits, calls>>

\* Where the process is after its imports and before it ends.
Running == {"main", "parsed", "seeded", "args_saved", "dataset", "split",
            "train_iter", "val_iter", "model", "optimizer", "trainer", "loop",
            "update", "evaluator", "log_report", "plot_loss", "plot_accuracy",
            "snapshot", "snapshot_object"}

\* Where the loop can raise: a training iteration, the evaluation, the
\* logging, the plotting.  Nothing in train() catches it.
Raising == {"update", "evaluator", "log_report", "plot_loss", "plot_accuracy"}

\* The process dies: killed at any point, or by an exception in the loop.
\* Its memory is gone; the destination directory stays as it is.
Crash ==
  /\ pc \in Running
  /\ pc' = "failed"
  /\ error' \in (IF pc \in Raising THEN {"killed", "runtime"} ELSE {"killed"})
  /\ ResetMemory
  /\ UNCHANGED <<env, disk, started, splits, calls>>

Steps ==
  \/ ParseArgument
  \/ SetRandomSeed
  \/ SaveArgs
  \/ LoadDataset
  \/ SplitDataset
  \/ TrainIterator
  \/ ValIterator
  \/ BuildModel
  \/ BuildOptimizer
  \/ BuildTrainer
  \/ Resume
  \/ LoopTop
  \/ Update
  \/ ExtEvaluator
  \/ ExtLogReport
  \/ ExtPlotLoss
  \/ ExtPlotAccuracy
  \/ ExtSnapshot
  \/ ExtSnapshotObject

Next == StartProcess \/ Steps \/ Crash

Spec == Init /\ [][Next]_vars

\* One process on an empty destination; the loop's steps are taken whenever
\* they can be: the worker pool delivers each batch, nothing else suspends.
FirstProcess == ~started /\ StartProcess

FreshNext == FirstProcess \/ Steps \/ Crash

FairSpec == Init /\ [][FreshNext]_vars /\ WF_vars(Steps)

----------------------------------------------------------------------------
\* The split on its own: any dataset length, any seed, whatever state the
\* global generator is in, called repeatedly.

SplitInit ==
  /\ matplotlib = TRUE
  /\ dataset_len \in 0..MaxSplitLen
  /\ cmdline = NoArgs
  /\ started = FALSE
  /\ pc = "split_only"
  /\ error = ""
  /\ args = NoArgs
  /\ rng \in {[random |-> -1, np |-> SeedState(s), xp |-> -1] : s \in Seeds}
  /\ trace = << >>
  /\ dataset = dataset_len
  /\ train_dataset = << >>
  /\ valid_dataset = << >>
  /\ iters = {}
  /\ model = NoModel
  /\ optimizer = [kind |-> "", t |-> 0]
  /\ updater = [iteration |-> 0, epoch |-> 0, pos |-> 0]
  /\ log = << >>
  /\ trig = NoTrig
  /\ extensions = {}
  /\ resumed_from = 0
  /\ events = << >>
  /\ dir_exists = FALSE
  /\ args_json = FALSE
  /\ snap_files = << >>
  /\ model_files = << >>
  /\ log_json = << >>
  /\ splits = {}
  /\ calls = 0

SplitCall ==
  /\ pc = "split_only"
  /\ calls < MaxCalls
  /\ \E s \in Seeds :
       LET r == SplitDatasetRandom(dataset, TrainSize(dataset), s, rng.np)
       IN /\ train_dataset' = r.train
          /\ valid_dataset' = r.valid
          /\ rng' = [rng EXCEPT !.np = r.np]
          /\ splits' = splits \cup {[n |-> dataset, seed |-> s,
                                     train |-> r.train, valid |-> r.valid]}
  /\ calls' = calls + 1
  /\ UNCHANGED <<env, disk, started, pc, error, args, trace, dataset, iters,
                 model, optimizer, updater, log, trig, extensions, resumed_from,
                 events>>

SplitSpec == SplitInit /\ [][SplitCall]_vars

----------------------------------------------------------------------------
\* Properties.

LoopPcs == {"loop", "update", "evaluator", "log_report", "plot_loss",
            "plot_accuracy", "snapshot", "snapshot_object"}

ExtPcs == LoopPcs \ {"loop", "update"}

SetupEvents == {trace[i][1] : i \in DOMAIN trace}

\* C1: a process whose --model_name is not supported fails with the
\* configuration error before it has touched anything: when the error is
\* raised it has not created the destination directory or written args.json,
\* not loaded or split the dataset, and created no iterator.
C1_IllegalModelNoSideEffects ==
  error = "illegal model name" =>
    /\ SetupEvents \cap {"mkdir", "args_json", "dataset", "split",
                         "train_iter", "val_iter"} = {}
    /\ dataset = -1
    /\ iters = {}

\* The trainer state of an uninterrupted run from st until `epochs` epochs
\* are done: the updates of the loop and the record appended at each epoch end.
RECURSIVE Uninterrupted(_, _, _, _)
Uninterrupted(st, batch_size, n, epochs) ==
  IF st.updater.epoch >= epochs THEN st
  ELSE LET u == NextUpdater(st.updater, batch_size, n)
       IN Uninterrupted(
            [updater |-> u, t |-> st.t + 1,
             log |-> IF u.epoch # st.updater.epoch
                       THEN Append(st.log, LogRecord(u)) ELSE st.log],
            batch_size, n, epochs)

FreshTrainer == [updater |-> [iteration |-> 0, epoch |-> 0, pos |-> 0],
                 t |-> 0, log |-> << >>]

\* C2: a process resumed from snapshot_epoch_N with --epoch N+M has the
\* counters and the optimizer state of the snapshot before its first
\* iteration, performs epoch-end events (evaluation, log record, plots,
\* checkpoints) only for the epochs N+1..N+M, and ends at epoch N+M in the
\* trainer state (counters, optimizer state, log) of an uninterrupted fresh
\* run with --epoch N+M.
C2_ResumeRoundTrip ==
  (resumed_from > 0 /\ pc \in LoopPcs \cup {"completed"}) =>
    /\ updater.epoch >= resumed_from
    /\ optimizer.t = updater.iteration
    /\ \A k \in DOMAIN events : k[2] \in (resumed_from + 1)..args.epoch
    /\ pc = "completed" =>
         /\ updater.epoch = args.epoch
         /\ [updater |-> updater, t |-> optimizer.t, log |-> log]
              = Uninterrupted(FreshTrainer, args.batch_size,
                              Len(train_dataset), args.epoch)

\* C3 as claimed: a checkpoint file is never written again once it exists,
\* by the process that wrote it or by any later process on the destination.
C3_NeverWrittenAgain ==
  [][/\ \A e \in DOMAIN snap_files :
          Count(events', <<"snapshot", e>>) <= Count(events, <<"snapshot", e>>)
     /\ \A e \in DOMAIN model_files :
          Count(events', <<"model", e>>) <= Count(events, <<"model", e>>)]_vars

\* The epochs whose end this process has reached and whose extensions have
\* all run.
EpochsEnded ==
  {e \in 1..updater.epoch :
     /\ Count(events, <<"eval", e>>) > 0
     /\ (e < updater.epoch \/ pc \in {"loop", "update", "completed"})}

\* C3, amended: within one process no checkpoint name is written twice, and
\* every epoch end the process reaches writes exactly one snapshot_epoch_e
\* and one model_epoch_e, named with (and holding) the epoch that ended.
C3_OncePerProcess ==
  /\ \A k \in DOMAIN events : k[1] \in {"snapshot", "model"} => events[k] = 1
  /\ \A e \in EpochsEnded :
       /\ Count(events, <<"snapshot", e>>) = 1
       /\ Count(events, <<"model", e>>) = 1
       /\ e \in DOMAIN snap_files /\ snap_files[e].updater.epoch = e
       /\ e \in DOMAIN model_files

\* A resumed process that has written the model checkpoint of the epoch it
\* was resumed from, and the pair of the next epoch.
C3_Witness ==
  /\ resumed_from = 1
  /\ pc = "completed"
  /\ Count(events, <<"model", 1>>) = 1
  /\ Count(events, <<"snapshot", 2>>) = 1
  /\ Count(events, <<"model", 2>>) = 1

C5_SplitPartition ==
  /\ \A r \in splits :
       /\ 10 * Len(r.train) <= 9 * r.n /\ 9 * r.n < 10 * (Len(r.train) + 1)
       /\ Len(r.valid) = r.n - Len(r.train)
       /\ r.n = 100 => (Len(r.train) = 90 /\ Len(r.valid) = 10)
       /\ Range(r.train) \cap Range(r.valid) = {}
       /\ Range(r.train) \cup Range(r.valid) = 0..(r.n - 1)
       /\ Cardinality(Range(r.train)) = Len(r.train)
       /\ Cardinality(Range(r.valid)) = Len(r.valid)
  /\ \A r1, r2 \in splits :
       (r1.n = r2.n /\ r1.seed = r2.seed) => r1 = r2

\* 100 samples split twice with the same seed.
C5_Witness ==
  /\ calls = 2
  /\ dataset = 100
  /\ Cardinality(splits) = 1
  /\ Len(train_dataset) = 90

\* C6: the configured seed is applied to the three generators before the
\* dataset is loaded or split, before any iterator is created and before
\* any parameter is initialised.
C6_SeedFirst ==
  \A i \in DOMAIN trace :
    trace[i][1] \in {"dataset", "split", "train_iter", "val_iter", "init_params"}
      => \A g \in {"seed_random", "seed_np", "seed_xp"} :
           \E j \in 1..(i - 1) : trace[j] = <<g, args.seed>>

\* A process that has split the dataset and initialised the parameters.
C6_Witness ==
  /\ pc = "model"
  /\ {"split", "init_params"} \subseteq SetupEvents
  /\ args.seed = 1

\* C7 as claimed: log.json only ever grows, and after a completed run to
\* total_epochs it holds the records 1..total_epochs.
C7_LogFileAppendOnly ==
  /\ [][IsPrefix(log_json, log_json')]_vars
  /\ [](pc = "completed" =>
          /\ Len(log_json) = args.epoch
          /\ \A k \in 1..Len(log_json) : log_json[k].epoch = k)

\* C7, amended: within a process the accumulated log (restored from the
\* snapshot when resumed) only grows, by one record per epoch end, and each
\* write makes log.json that log; at completion the accumulated log holds
\* the records 1..total_epochs, and log.json equals it if the process wrote
\* at least one record.  (What an earlier process left in log.json beyond
\* the accumulated log is dropped by the first write.)
C7_LogOfTheProcess ==
  /\ [][(pc \in LoopPcs /\ pc' \in LoopPcs \cup {"completed"}) =>
          /\ IsPrefix(log, log')
          /\ Len(log') <= Len(log) + 1
          /\ log_json' # log_json => log_json' = log']_vars
  /\ [](pc = "completed" =>
          /\ Len(log) = args.epoch
          /\ \A k \in 1..Len(log) : log[k].epoch = k
          /\ (\E k \in DOMAIN events : k[1] = "log") => log_json = log)

\* A process resumed from epoch 1 has completed epoch 2 and written the log.
C7_Witness ==
  /\ pc = "completed"
  /\ resumed_from = 1
  /\ args.epoch = 2
  /\ Count(events, <<"log", 2>>) = 1
  /\ Len(log_json) = 2

\* C8: without the plotting backend the run does not fail; only the two
\* plot extensions are missing.
C8_PlottingBestEffort ==
  ~matplotlib =>
    /\ error # "ImportError"
    /\ pc \in LoopPcs => extensions = {"evaluator", "log_report", "snapshot",
                                       "snapshot_object"}

\* C9: the MobilenetV2 built for mv2 has the configured --multiplier as its
\* depth multiplier, and every network has the same number of classes.
C9_ConfiguredMultiplier ==
  model # NoModel =>
    /\ model.num_classes = NumClasses
    /\ model.arch = "MobilenetV2" => model.depth_multiplier = args.multiplier

EpochEndKinds == {"eval", "log", "plot_loss", "plot_accuracy", "snapshot", "model"}

\* C10: a fresh process with a supported model and --epoch E, unless it is
\* killed or an exception is raised, eventually completes; at completion the
\* epoch counter is E, each of the epochs 1..E had exactly one validation
\* pass, one log record and one checkpoint pair, nothing happened for any
\* other epoch, and no iteration follows the end of epoch E.
C10_FreshRunCompletes ==
  /\ [](pc = "completed" =>
          /\ updater.epoch = args.epoch
          /\ \A e \in 1..args.epoch :
               \A kind \in {"eval", "log", "snapshot", "model"} :
                 Count(events, <<kind, e>>) = 1
          /\ \A k \in DOMAIN events :
               k[1] \in EpochEndKinds /\ k[2] \in 1..args.epoch /\ events[k] = 1
          /\ Len(log) = args.epoch
          /\ log[args.epoch].iteration = updater.iteration)
  /\ (pc = "trainer" /\ args.resume = 0)
       ~> (pc = "completed" \/ (pc = "failed" /\ error \in {"killed", "runtime"}))

\* A fresh process has completed the largest number of epochs.
C10_Witness ==
  /\ pc = "completed"
  /\ resumed_from = 0
  /\ args.epoch = MaxEpoch
  /\ updater.iteration > MaxEpoch

====
